---- MODULE Spec2Model ----
(***************************************************************************)
(* Model of the mesh routing simulation of src/mesh.py: the classes Mesh,  *)
(* Packet and Node.  Node ids are the integers 0, 1, 2 (the source uses    *)
(* the strings "0", "1", "2"; Mesh.__generate_mesh sorts them, which for   *)
(* one-digit ids is the numeric order).  A Packet object is a record with  *)
(* an id that stands for the object's identity: Python passes packets by   *)
(* reference, so a change of a packet shows in every buffer holding it.    *)
(***************************************************************************)
EXTENDS Integers, Sequences, FiniteSets, TLC

\* ------------------------------------------------------------------ bounds
\* Spec: packets and forced failures
MaxPackets == 2     \* generate_packet calls made by the shell
MaxFaults == 1      \* toggle_link / status toggle / restore calls
MaxRuns == 3        \* Mesh.run calls
\* SpecNoFail: the mesh without any failure
NoFailPackets == 2
NoFailRuns == 5
\* SpecReroute: the triangle with links going down and up
ReroutePackets == 1
RerouteFaults == 3
RerouteRuns == 4
\* SpecTopo: the longest link list of a node
MaxLinks == 2
\* SpecLinks: toggle_link / restore calls
LinkFaults == 3
\* SpecRestore: restore after failures
RestorePackets == 1
RestoreFaults == 2
RestoreRuns == 2
\* SpecTick: Mesh.run calls with and without failure rolls
TickPackets == 1
TickFaults == 1     \* set_rand_fail calls
TickRuns == 2
\* SpecRoute: the longest traveled path of a packet that is routed
FailFaults == 2     \* set_rand_fail calls
FailRuns == 2

ConservePackets == 2
ConserveFaults == 1
ConserveRuns == 3

LivePackets == 1
LiveRuns == 2        \* Mesh.run calls the history tells apart

MaxTravel == 3
\* SpecRandom: random failures
RandomPackets == 1
RandomFaults == 2   \* set_rand_fail / rand_fail calls
RandomRuns == 2

\* ------------------------------------------------------------ topologies
Nodes == {0, 1, 2}

\* the fully linked triangle
Triangle == (0 :> <<1, 2>>) @@ (1 :> <<0, 2>>) @@ (2 :> <<0, 1>>)
\* node 0 has no link at all
Isolated == (0 :> <<>>) @@ (1 :> <<2>>) @@ (2 :> <<1>>)
\* one-directional links (the engine does not enforce symmetry)
OneWay == (0 :> <<1>>) @@ (1 :> <<2>>) @@ (2 :> <<>>)

\* a line: 0 - 1 - 2
Line == (0 :> <<1>>) @@ (1 :> <<0, 2>>) @@ (2 :> <<1>>)

Topologies == {Triangle, Isolated, OneWay, Line}

\* every link list of at most MaxLinks entries that names only existing nodes
\* (self links and repeated entries included)
LinkLists == UNION {[1..k -> Nodes] : k \in 0..MaxLinks}
AllTopologies == [Nodes -> LinkLists]

\* the packets the shell generates: <<origin, destination>>
GenPairs == {<<0, 2>>, <<0, 0>>, <<1, 0>>}
\* the links the shell toggles
TogglePairs == {<<0, 2>>, <<2, 1>>}
\* the nodes the shell toggles
ToggleNodes == {0, 2}

NeverFailSets == {<<>>, <<0>>}
FailSets == {<<>>, <<0>>, <<0, 1>>}
ChanceValues == {0, 100}
RollValues == {1, 100}
Rolls(chance) == IF chance > 0 THEN RollValues ELSE {1}
Draws(chance) == IF chance > 0 THEN Nodes ELSE {0}

VARIABLES
    links,          \* Node.links, per node
    topology,       \* Node.topology, per node
    status,         \* Node.status
    received,       \* Node.received
    buffer,         \* Node.buffer
    failed,         \* Node.failed
    dead_links,     \* Mesh.dead_links
    tick,           \* Mesh.tick
    actions,        \* Mesh.actions: the number of messages in the list
    fail_chances,   \* Mesh.fail_chances
    hops,           \* Mesh.hops
    congestion,     \* Mesh.congestion
    errors,         \* Mesh.errors
    unreached,      \* Mesh.unreached
    round_trip,     \* Mesh.round_trip
    pc,             \* position of the shell: "new", "idle", or "run" inside Mesh.run's node loop
    cursor,         \* the node Mesh.run's loop is about to run
    abort,          \* "none", or the uncaught exception that ended the program
    next_id,        \* number of Packet objects constructed so far
    genlog,         \* the generate_packet calls made by the shell (history)
    recv_run,       \* per node, the Mesh.run call in which it last received from a peer (history)
    nfaults,        \* number of failure-related shell operations
    nruns,          \* number of Mesh.run calls
    last            \* what the last operation did (history)

vars == <<links, topology, status, received, buffer, failed, dead_links, tick,
          actions, fail_chances, hops, congestion, errors, unreached,
          round_trip, pc, cursor, abort, next_id, genlog, recv_run, nfaults, nruns, last>>

\* ---------------------------------------------------------- list helpers
Range(s) == {s[i] : i \in 1..Len(s)}

\* Python: x in s
InSeq(x, s) == \E i \in 1..Len(s) : s[i] = x

\* Python: s.index(x), 1-based here
IndexOf(x, s) == CHOOSE i \in 1..Len(s) : s[i] = x /\ \A j \in 1..(i - 1) : s[j] # x

\* Python: s.count(x)
Count(x, s) == Cardinality({i \in 1..Len(s) : s[i] = x})

\* Python: s.remove(x), removes the first occurrence
RemoveFirst(x, s) ==
    LET i == IndexOf(x, s)
    IN  SubSeq(s, 1, i - 1) \o SubSeq(s, i + 1, Len(s))

Last(s) == s[Len(s)]

\* no packet (history fields only)
NoPacket == [id |-> -1, packet_type |-> "none", source |-> -1, destination |-> -1,
             routing |-> <<>>, path |-> <<>>]

\* ------------------------------------------------- the mutable mesh state
\* The fields an operation of Mesh or Node can change, as one record, so that
\* a method is an operator from mesh state to mesh state.  attempts, outcome
\* fatal and packet are history: the peers Node.run tried to transmit to, how
\* it ended, whether the 'routing link does not exist' branch was taken, and
\* the packet Node.run worked on, as it was when Node.run ended.
MeshState ==
    [status |-> status, received |-> received, buffer |-> buffer,
     failed |-> failed, dead_links |-> dead_links, actions |-> actions,
     hops |-> hops, errors |-> errors, unreached |-> unreached,
     round_trip |-> round_trip, next_id |-> next_id, abort |-> abort,
     recv_run |-> recv_run, attempts |-> <<>>, outcome |-> "none", fatal |-> FALSE,
     packet |-> NoPacket]

\* Mesh.update / Node.update: one more message in Mesh.actions
update(M) == [M EXCEPT !.actions = @ + 1]

\* Mesh.save
save(M, metric, value) ==
    CASE metric = "hops" -> [M EXCEPT !.hops = Append(@, value)]
      [] metric = "errors" -> [M EXCEPT !.errors = @ + 1]
      [] metric = "unreached" -> [M EXCEPT !.unreached = @ + 1]
      [] metric = "round_trip" -> [M EXCEPT !.round_trip = @ + 1]
      [] OTHER -> M

\* A faulty link_status: the link is looked up in one orientation only.
link_status_oneway(dl, node0, node1) == ~InSeq(<<node0, node1>>, dl)

\* Mesh.link_status
link_status(dl, node0, node1) ==
    ~InSeq(<<node0, node1>>, dl) /\ ~InSeq(<<node1, node0>>, dl)

\* A faulty toggle_link: the reversed link is not looked for.
toggle_link_oneway(M, node0, node1) ==
    LET link == <<node0, node1>>
    IN  IF InSeq(link, M.dead_links)
        THEN update([M EXCEPT !.dead_links = RemoveFirst(link, @)])
        ELSE update([M EXCEPT !.dead_links = Append(@, link)])

\* Mesh.toggle_link
toggle_link(M, node0, node1) ==
    LET link == <<node0, node1>>
        r_link == <<node1, node0>>
    IN  IF InSeq(link, M.dead_links)
        THEN update([M EXCEPT !.dead_links = RemoveFirst(link, @)])
        ELSE IF InSeq(r_link, M.dead_links)
        THEN update([M EXCEPT !.dead_links = RemoveFirst(r_link, @)])
        ELSE update([M EXCEPT !.dead_links = Append(@, link)])

\* A packet is one object: a change of it shows in every buffer that holds it.
SetPacket(buf, p) ==
    [n \in DOMAIN buf |->
        [i \in 1..Len(buf[n]) |-> IF buf[n][i].id = p.id THEN p ELSE buf[n][i]]]

\* Node.__in_path: entries of the avoidance list are links <<a, b>> or nodes <<a>>
in_path(fl, path) ==
    IF fl = <<>> THEN FALSE
    ELSE IF \E i \in 1..Len(fl) : Len(fl[i]) = 1 /\ InSeq(fl[i][1], path) THEN TRUE
    ELSE \E index \in 1..(Len(path) - 1) :
            \/ InSeq(<<path[index], path[index + 1]>>, fl)
            \/ InSeq(<<path[index + 1], path[index]>>, fl)

\* A faulty for loop of __find_route: it does not stop at the first path it
\* accepts, so the last accepted path of the length wins.
RECURSIVE scan_paths_last(_, _, _, _, _, _)
scan_paths_last(topo, i, length, fl, packet, acc) ==
    IF i > Len(topo) THEN acc
    ELSE
        LET path == topo[i]
            acc1 == [acc EXCEPT !.max_length = IF Len(path) > @ THEN Len(path) ELSE @]
            cand == /\ Len(path) = length
                    /\ Last(path) = packet.destination
                    /\ ~in_path(fl, path)
        IN  IF cand /\ Range(Tail(path)) \cap Range(packet.path) = {}
            THEN scan_paths_last(topo, i + 1, length, fl, packet,
                                 [acc1 EXCEPT !.route = path, !.found = TRUE])
            ELSE IF cand
            THEN scan_paths_last(topo, i + 1, length, fl, packet, [acc1 EXCEPT !.alternate = path])
            ELSE scan_paths_last(topo, i + 1, length, fl, packet, acc1)

\* Node.__find_route, the for loop over self.topology at one length
RECURSIVE scan_paths(_, _, _, _, _, _)
scan_paths(topo, i, length, fl, packet, acc) ==
    IF i > Len(topo) THEN acc
    ELSE
        LET path == topo[i]
            acc1 == [acc EXCEPT !.max_length = IF Len(path) > @ THEN Len(path) ELSE @]
            cand == /\ Len(path) = length
                    /\ Last(path) = packet.destination
                    /\ ~in_path(fl, path)
        IN  IF cand /\ Range(Tail(path)) \cap Range(packet.path) = {}
            THEN [acc1 EXCEPT !.route = path, !.found = TRUE]
            ELSE IF cand
            THEN scan_paths(topo, i + 1, length, fl, packet, [acc1 EXCEPT !.alternate = path])
            ELSE scan_paths(topo, i + 1, length, fl, packet, acc1)

\* Node.__find_route, the while loop over the lengths: scan_lengths runs the
\* for loop at one length, next_length is the end of the loop body (a is the
\* state of the scan after the for loop)
RECURSIVE scan_lengths(_, _, _, _, _)
RECURSIVE next_length(_, _, _, _, _)
scan_lengths(topo, length, fl, packet, acc) ==
    next_length(topo, length, fl, packet, scan_paths(topo, 1, length, fl, packet, acc))

next_length(topo, length, fl, packet, a) ==
    IF a.found THEN a
    ELSE IF length + 1 > a.max_length THEN a
    ELSE scan_lengths(topo, length + 1, fl, packet, a)

\* A faulty end of __find_route: the alternate is used whatever the traveled
\* path holds.
choose_route_always(a, packet) ==
    IF a.route = <<>> /\ a.alternate # <<>> THEN a.alternate ELSE a.route

\* Node.__find_route, after the while loop: the use of the alternate route
choose_route(a, packet) ==
    LET repeated == \E i \in 1..Len(packet.path) : Count(packet.path[i], packet.path) > 1
    IN  IF a.route = <<>> /\ a.alternate # <<>>
        THEN (IF ~repeated THEN a.alternate ELSE <<>>)
        ELSE a.route

\* A faulty __find_route: a packet that comes with a route keeps it.
find_route_cached(node_id, topo, fl, packet) ==
    IF packet.destination = node_id THEN <<node_id>>
    ELSE IF packet.routing # <<>> THEN packet.routing
    ELSE choose_route(
            scan_lengths(topo, 2, fl, packet,
                [found |-> FALSE, route |-> <<>>, alternate |-> <<>>, max_length |-> 0]),
            packet)

\* A faulty __find_route: the test for a packet routed to the node itself is
\* missing.
find_route_noself(node_id, topo, fl, packet) ==
    choose_route(
        scan_lengths(topo, 2, fl, packet,
            [found |-> FALSE, route |-> <<>>, alternate |-> <<>>, max_length |-> 0]),
        packet)

\* A faulty __find_route: the search starts at paths of three nodes.
find_route_long(node_id, topo, fl, packet) ==
    IF packet.destination = node_id THEN <<node_id>>
    ELSE choose_route(
            scan_lengths(topo, 3, fl, packet,
                [found |-> FALSE, route |-> <<>>, alternate |-> <<>>, max_length |-> 0]),
            packet)

\* Node.__find_route
find_route(node_id, topo, fl, packet) ==
    IF packet.destination = node_id THEN <<node_id>>
    ELSE choose_route(
            scan_lengths(topo, 2, fl, packet,
                [found |-> FALSE, route |-> <<>>, alternate |-> <<>>, max_length |-> 0]),
            packet)

\* A faulty __generate_routes: a new path is recorded but not extended further.
generate_routes_shallow(lk, routes, node, path, i) ==
    LET add[j \in 0..Len(lk[node])] ==
            IF j = 0 THEN routes
            ELSE LET new_path == Append(path, lk[node][j])
                 IN  IF ~InSeq(new_path, add[j - 1]) /\ ~InSeq(lk[node][j], path)
                     THEN Append(add[j - 1], new_path)
                     ELSE add[j - 1]
    IN  add[Len(lk[node])]

\* A faulty __generate_routes: the 'no looping paths' test misses the first
\* node of the path, so a path may come back to where it started.
RECURSIVE generate_routes_looping(_, _, _, _, _)
generate_routes_looping(lk, routes, node, path, i) ==
    IF i > Len(lk[node]) THEN routes
    ELSE
        LET link == lk[node][i]
            new_path == Append(path, link)
        IN  IF ~InSeq(new_path, routes) /\ ~InSeq(link, Tail(path))
            THEN generate_routes_looping(lk,
                    generate_routes_looping(lk, Append(routes, new_path), link, new_path, 1),
                    node, path, i + 1)
            ELSE generate_routes_looping(lk, routes, node, path, i + 1)

\* Node.__generate_routes: the loop over the links of node, from index i on
RECURSIVE generate_routes(_, _, _, _, _)
generate_routes(lk, routes, node, path, i) ==
    IF i > Len(lk[node]) THEN routes
    ELSE
        LET link == lk[node][i]
            new_path == Append(path, link)
        IN  IF ~InSeq(new_path, routes) /\ ~InSeq(link, path)
            THEN generate_routes(lk,
                    generate_routes(lk, Append(routes, new_path), link, new_path, 1),
                    node, path, i + 1)
            ELSE generate_routes(lk, routes, node, path, i + 1)

\* Node.generate_topology
generate_topology(lk, topo, node_id) ==
    generate_routes(lk, topo, node_id, <<node_id>>, 1)

\* A faulty __receive_packet: the received flag is never set.
receive_packet_unflagged(M, n, packet, generated) ==
    IF M.status[n]
    THEN LET p == [packet EXCEPT !.path = Append(@, n)]
             b == SetPacket(M.buffer, p)
             M1 == [M EXCEPT !.buffer = [b EXCEPT ![n] = Append(@, p)]]
         IN  [M |-> update(M1), ok |-> TRUE]
    ELSE [M |-> update(M), ok |-> FALSE]

\* A faulty __receive_packet: the path is rewritten to the receiver alone.
receive_packet_rewriting(M, n, packet, generated) ==
    IF M.status[n]
    THEN LET p == [packet EXCEPT !.path = <<n>>]
             b == SetPacket(M.buffer, p)
             M1 == [M EXCEPT !.buffer = [b EXCEPT ![n] = Append(@, p)]]
             M2 == IF generated THEN M1
                   ELSE [M1 EXCEPT !.received[n] = TRUE, !.recv_run[n] = nruns]
         IN  [M |-> update(M2), ok |-> TRUE]
    ELSE [M |-> update(M), ok |-> FALSE]

\* A faulty __receive_packet: the packet's source is added to the path in
\* place of the receiving node.
receive_packet_misplacing(M, n, packet, generated) ==
    IF M.status[n]
    THEN LET p == [packet EXCEPT !.path = Append(@, packet.source)]
             b == SetPacket(M.buffer, p)
             M1 == [M EXCEPT !.buffer = [b EXCEPT ![n] = Append(@, p)]]
             M2 == IF generated THEN M1
                   ELSE [M1 EXCEPT !.received[n] = TRUE, !.recv_run[n] = nruns]
         IN  [M |-> update(M2), ok |-> TRUE]
    ELSE [M |-> update(M), ok |-> FALSE]

\* Node.__receive_packet
receive_packet(M, n, packet, generated) ==
    IF M.status[n]
    THEN LET p == [packet EXCEPT !.path = Append(@, n)]
             b == SetPacket(M.buffer, p)
             M1 == [M EXCEPT !.buffer = [b EXCEPT ![n] = Append(@, p)]]
             M2 == IF generated THEN M1
                   ELSE [M1 EXCEPT !.received[n] = TRUE, !.recv_run[n] = nruns]
         IN  [M |-> update(M2), ok |-> TRUE]
    ELSE [M |-> update(M), ok |-> FALSE]

\* Node.generate_packet
generate_packet(M, n, packet_type, destination) ==
    LET new_packet == [id |-> M.next_id, packet_type |-> packet_type, source |-> n,
                       destination |-> destination, routing |-> <<>>, path |-> <<>>]
        routed == [new_packet EXCEPT
                      !.routing = find_route(n, topology[n], M.failed[n], new_packet)]
    IN  receive_packet([M EXCEPT !.next_id = @ + 1], n, routed, TRUE).M

\* A faulty __transmit_packet: the link's status is not looked at.
transmit_packet_blind(M, n, target, packet) ==
    IF target = n
    THEN [M |-> receive_packet(M, n, packet, FALSE).M, ok |-> TRUE]
    ELSE
        LET M0 == update([M EXCEPT !.attempts = Append(@, target)])
            fail(X) == save(update([X EXCEPT !.failed[n] = Append(@, <<n, target>>)]),
                            "errors", 1)
        IN  IF ~InSeq(target, links[n])
            THEN [M |-> update([M0 EXCEPT !.fatal = TRUE]), ok |-> FALSE]
            ELSE
                LET r == receive_packet(M0, target, packet, FALSE)
                IN  IF ~r.ok
                    THEN [M |-> fail(r.M), ok |-> FALSE]
                    ELSE [M |-> update(r.M), ok |-> TRUE]

\* A faulty __transmit_packet: a receiver that is down is put on the avoidance
\* list, but the failure is not counted.
transmit_packet_silent(M, n, target, packet) ==
    IF target = n
    THEN [M |-> receive_packet(M, n, packet, FALSE).M, ok |-> TRUE]
    ELSE
        LET M0 == update([M EXCEPT !.attempts = Append(@, target)])
            fail(X) == save(update([X EXCEPT !.failed[n] = Append(@, <<n, target>>)]),
                            "errors", 1)
        IN  IF ~InSeq(target, links[n])
            THEN [M |-> update([M0 EXCEPT !.fatal = TRUE]), ok |-> FALSE]
            ELSE IF ~link_status(M0.dead_links, n, target)
            THEN [M |-> fail(M0), ok |-> FALSE]
            ELSE
                LET r == receive_packet(M0, target, packet, FALSE)
                IN  IF ~r.ok
                    THEN [M |-> update([r.M EXCEPT !.failed[n] = Append(@, <<n, target>>)]),
                          ok |-> FALSE]
                    ELSE [M |-> update(r.M), ok |-> TRUE]

\* Node.__transmit_packet (always called with a packet)
transmit_packet(M, n, target, packet) ==
    IF target = n
    THEN [M |-> receive_packet(M, n, packet, FALSE).M, ok |-> TRUE]
    ELSE
        LET M0 == update([M EXCEPT !.attempts = Append(@, target)])
            fail(X) == save(update([X EXCEPT !.failed[n] = Append(@, <<n, target>>)]),
                            "errors", 1)
        IN  IF ~InSeq(target, links[n])
            THEN [M |-> update([M0 EXCEPT !.fatal = TRUE]), ok |-> FALSE]
            ELSE IF ~link_status(M0.dead_links, n, target)
            THEN [M |-> fail(M0), ok |-> FALSE]
            ELSE
                LET r == receive_packet(M0, target, packet, FALSE)
                IN  IF ~r.ok
                    THEN [M |-> fail(r.M), ok |-> FALSE]
                    ELSE [M |-> update(r.M), ok |-> TRUE]

\* A faulty __send_packet: the packet is sent to the last node of its route
\* and not to the node that follows the sender.
send_routed_direct(M, n, p) ==
    LET M1 == [M EXCEPT !.buffer = SetPacket(@, p)]
    IN  IF ~InSeq(Last(p.path), p.routing)
        THEN [M |-> [M1 EXCEPT !.abort = "ValueError"], ok |-> FALSE]
        ELSE IF IndexOf(Last(p.path), p.routing) + 1 > Len(p.routing)
        THEN [M |-> [M1 EXCEPT !.abort = "IndexError"], ok |-> FALSE]
        ELSE transmit_packet(M1, n, Last(p.routing), p)

\* Node.__send_packet; list.index raises ValueError when the node is not in
\* the route, and the subscript raises IndexError when it is the last element
send_routed(M, n, p) ==
    LET M1 == [M EXCEPT !.buffer = SetPacket(@, p)]
    IN  IF ~InSeq(Last(p.path), p.routing)
        THEN [M |-> [M1 EXCEPT !.abort = "ValueError"], ok |-> FALSE]
        ELSE IF IndexOf(Last(p.path), p.routing) + 1 > Len(p.routing)
        THEN [M |-> [M1 EXCEPT !.abort = "IndexError"], ok |-> FALSE]
        ELSE transmit_packet(M1, n, p.routing[IndexOf(Last(p.path), p.routing) + 1], p)

send_packet(M, n, packet) ==
    IF packet.routing = <<>>
    THEN send_routed(M, n,
            [packet EXCEPT !.routing = find_route(n, topology[n], M.failed[n], packet)])
    ELSE send_routed(M, n, packet)

\* A faulty __process_packet: the hop count saved is the length of the
\* traveled path, not that length minus one.
process_packet_counting(M, n, packet) ==
    IF packet.packet_type = "data"
    THEN IF packet.destination = n
         THEN [M |-> [save(generate_packet(M, n, "ACK", packet.source),
                           "hops", Len(packet.path))
                        EXCEPT !.outcome = "delivered"],
               ok |-> TRUE]
         ELSE send_packet(M, n, packet)
    ELSE IF packet.destination = n
         THEN [M |-> [save(update(M), "round_trip", 1) EXCEPT !.outcome = "round_trip"],
               ok |-> TRUE]
         ELSE send_packet(M, n, packet)

\* Node.__process_packet
process_packet(M, n, packet) ==
    IF packet.packet_type = "data"
    THEN IF packet.destination = n
         THEN [M |-> [save(generate_packet(M, n, "ACK", packet.source),
                           "hops", Len(packet.path) - 1)
                        EXCEPT !.outcome = "delivered"],
               ok |-> TRUE]
         ELSE send_packet(M, n, packet)
    ELSE IF packet.destination = n
         THEN [M |-> [save(update(M), "round_trip", 1) EXCEPT !.outcome = "round_trip"],
               ok |-> TRUE]
         ELSE send_packet(M, n, packet)

\* Node.run, the while loop on the packet at the head of the buffer:
\* run_loop is one pass (the call of __process_packet), retry is the
\* `if not check` that follows it (r is what __process_packet returned), and
\* reroute is the new route's use (M1 is the state after the failed attempt).
\* A failed attempt that changed neither the avoidance list nor the route
\* repeats for ever: the loop does not end ("hang").
RECURSIVE run_loop(_, _)
RECURSIVE retry(_, _, _)
RECURSIVE reroute(_, _, _, _)
run_loop(M, n) == retry(M, n, process_packet(M, n, Head(M.buffer[n])))

retry(M, n, r) ==
    IF r.M.abort # "none" THEN r.M
    ELSE IF r.ok
    THEN (IF r.M.outcome = "none" THEN [r.M EXCEPT !.outcome = "sent"] ELSE r.M)
    ELSE reroute(M, n, r.M, find_route(n, topology[n], r.M.failed[n], Head(r.M.buffer[n])))

reroute(M, n, M1, route) ==
    LET packet == Head(M1.buffer[n])
        M2 == [M1 EXCEPT !.buffer = SetPacket(@, [packet EXCEPT !.routing = route])]
    IN  IF route = <<>>
        THEN [save(update(M2), "unreached", 1) EXCEPT !.outcome = "giveup"]
        ELSE IF M1.failed = M.failed /\ route = packet.routing
        THEN [M2 EXCEPT !.abort = "hang"]
        ELSE run_loop(M2, n)

\* A faulty end of Node.run: the packet is not popped.
run_end_keeping(M2, n) ==
    IF M2.abort # "none"
    THEN [M2 EXCEPT !.outcome = "abort", !.packet = Head(M2.buffer[n])]
    ELSE [M2 EXCEPT !.packet = Head(M2.buffer[n])]

\* Node.run, its end: the packet is popped unless an exception ended the run
run_end(M2, n) ==
    IF M2.abort # "none"
    THEN [M2 EXCEPT !.outcome = "abort", !.packet = Head(M2.buffer[n])]
    ELSE [M2 EXCEPT !.packet = Head(M2.buffer[n]), !.buffer[n] = Tail(@)]

\* A faulty Node.run: the status of the node is not looked at.
run_checks_draining(M1, n) ==
    IF M1.buffer[n] = <<>> THEN [M1 EXCEPT !.outcome = "idle"]
    ELSE IF M1.received[n]
    THEN [M1 EXCEPT !.received[n] = FALSE, !.outcome = "deferred"]
    ELSE run_end(run_loop(M1, n), n)

\* A faulty Node.run: the received flag is not reset when the turn is skipped.
run_checks_deferring(M1, n) ==
    IF M1.buffer[n] = <<>> THEN [M1 EXCEPT !.outcome = "idle"]
    ELSE IF ~M1.status[n] THEN [M1 EXCEPT !.outcome = "down"]
    ELSE IF M1.received[n]
    THEN [M1 EXCEPT !.outcome = "deferred"]
    ELSE run_end(run_loop(M1, n), n)

\* Node.run, after the avoidance list is cleared
run_checks(M1, n) ==
    IF M1.buffer[n] = <<>> THEN [M1 EXCEPT !.outcome = "idle"]
    ELSE IF ~M1.status[n] THEN [M1 EXCEPT !.outcome = "down"]
    ELSE IF M1.received[n]
    THEN [M1 EXCEPT !.received[n] = FALSE, !.outcome = "deferred"]
    ELSE run_end(run_loop(M1, n), n)

\* Node.run
run(M, n) == run_checks([M EXCEPT !.failed[n] = <<>>], n)

\* Mesh.mesh keeps the nodes in sorted id order (Mesh.__generate_mesh)
NodeOrder == <<0, 1, 2>>

\* Mesh.get_average_buffer: the average as the fraction num/den; -1/1 is the
\* 'all buffers empty' value -1.0
get_average_buffer(buf) ==
    LET full == {n \in Nodes : Len(buf[n]) >= 1}
        total[S \in SUBSET Nodes] ==
            IF S = {} THEN 0
            ELSE LET n == CHOOSE x \in S : TRUE IN Len(buf[n]) + total[S \ {n}]
    IN  IF full = {} THEN [num |-> -1, den |-> 1]
        ELSE [num |-> total[full], den |-> Cardinality(full)]

\* A faulty rand_fail: the never-fail list is not consulted.
rand_fail_anywhere(M, fail_type, fail_chance, never_fail, roll, rand_node, pick) ==
    IF roll <= fail_chance
    THEN IF fail_type = "node"
         THEN update([M EXCEPT !.status[rand_node] = ~@])
         ELSE IF links[rand_node] = <<>>
         THEN [M EXCEPT !.abort = "IndexError"]
         ELSE toggle_link(M, rand_node, links[rand_node][pick])
    ELSE M

\* Mesh.rand_fail: roll, rand_node and pick are the three random draws;
\* random.choice of an empty link list raises IndexError
rand_fail(M, fail_type, fail_chance, never_fail, roll, rand_node, pick) ==
    IF roll <= fail_chance
    THEN IF InSeq(rand_node, never_fail) THEN M
         ELSE IF fail_type = "node"
         THEN update([M EXCEPT !.status[rand_node] = ~@])
         ELSE IF links[rand_node] = <<>>
         THEN [M EXCEPT !.abort = "IndexError"]
         ELSE toggle_link(M, rand_node, links[rand_node][pick])
    ELSE M

\* A faulty restore: the buffers are emptied as well.
restore_wiping(M) ==
    update([M EXCEPT !.dead_links = <<>>, !.status = [n \in Nodes |-> TRUE],
                     !.buffer = [n \in Nodes |-> <<>>]])

\* Mesh.restore
restore(M) ==
    update([M EXCEPT !.dead_links = <<>>, !.status = [n \in Nodes |-> TRUE]])

\* the draws random.choice can make from the link list of a node
Picks(n) == IF links[n] = <<>> THEN {1} ELSE 1..Len(links[n])

\* ------------------------------------------------------------------ Init
\* Mesh.__init__ and Node.__init__: the state right after Mesh(json_data)
InitMesh ==
    /\ topology = [n \in Nodes |-> <<>>]
    /\ status = [n \in Nodes |-> TRUE]
    /\ received = [n \in Nodes |-> FALSE]
    /\ buffer = [n \in Nodes |-> <<>>]
    /\ failed = [n \in Nodes |-> <<>>]
    /\ dead_links = <<>>
    /\ tick = 0
    /\ actions = 0
    /\ fail_chances = [node |-> 0, link |-> 0]
    /\ hops = <<>>
    /\ congestion = <<>>
    /\ errors = 0
    /\ unreached = 0
    /\ round_trip = 0
    /\ pc = "new"
    /\ cursor = 0
    /\ abort = "none"
    /\ next_id = 0
    /\ genlog = <<>>
    /\ recv_run = [n \in Nodes |-> 0]
    /\ nfaults = 0
    /\ nruns = 0
    /\ last = [op |-> "init", node |-> 0, outcome |-> "none", attempts |-> <<>>,
               fatal |-> FALSE, packet |-> NoPacket]

\* the mesh state M becomes the next state
Becomes(M) ==
    /\ status' = M.status
    /\ received' = M.received
    /\ buffer' = M.buffer
    /\ failed' = M.failed
    /\ dead_links' = M.dead_links
    /\ actions' = M.actions
    /\ hops' = M.hops
    /\ errors' = M.errors
    /\ unreached' = M.unreached
    /\ round_trip' = M.round_trip
    /\ next_id' = M.next_id
    /\ abort' = M.abort
    /\ recv_run' = M.recv_run

Did(op, n, M) ==
    last' = [op |-> op, node |-> n, outcome |-> M.outcome, attempts |-> M.attempts,
             fatal |-> M.fatal, packet |-> M.packet]

Ready == pc = "idle" /\ abort = "none"

\* --------------------------------------------------------------- actions
\* Mesh.generate_topology, called once after construction (main.py, init_mesh)
GenerateTopology ==
    /\ pc = "new"
    /\ topology' = [n \in Nodes |-> generate_topology(links, topology[n], n)]
    /\ Becomes(update(MeshState))
    /\ pc' = "idle"
    /\ Did("generate_topology", 0, MeshState)
    /\ UNCHANGED <<links, tick, fail_chances, congestion, cursor, genlog, nfaults, nruns>>

\* Node.generate_packet("data", destination), the shell's [p]
GeneratePacket(n, destination) ==
    /\ Ready
    /\ Becomes(generate_packet(MeshState, n, "data", destination))
    /\ genlog' = Append(genlog, [source |-> n, destination |-> destination,
                                  run |-> nruns, faults |-> nfaults])
    /\ Did("generate_packet", n, MeshState)
    /\ UNCHANGED <<links, topology, tick, fail_chances, congestion, pc, cursor, nfaults, nruns>>

\* Mesh.toggle_link(node0, node1), the shell's [l]
ToggleLink(node0, node1) ==
    /\ Ready
    /\ Becomes(toggle_link(MeshState, node0, node1))
    /\ nfaults' = nfaults + 1
    /\ Did("toggle_link", node0, MeshState)
    /\ UNCHANGED <<links, topology, tick, fail_chances, congestion, pc, cursor, genlog, nruns>>

\* the shell's [f]: mesh[node].status = not mesh[node].status
ToggleStatus(n) ==
    /\ Ready
    /\ Becomes([MeshState EXCEPT !.status[n] = ~@])
    /\ nfaults' = nfaults + 1
    /\ Did("toggle_status", n, MeshState)
    /\ UNCHANGED <<links, topology, tick, fail_chances, congestion, pc, cursor, genlog, nruns>>

\* Mesh.restore, the shell's [t]
Restore ==
    /\ Ready
    /\ Becomes(restore(MeshState))
    /\ nfaults' = nfaults + 1
    /\ Did("restore", 0, MeshState)
    /\ UNCHANGED <<links, topology, tick, fail_chances, congestion, pc, cursor, genlog, nruns>>

\* Mesh.set_rand_fail, the shell's [c]
SetRandFail(fail_type, fail_chance) ==
    /\ Ready
    /\ fail_chances' = [fail_chances EXCEPT ![fail_type] = fail_chance]
    /\ nfaults' = nfaults + 1
    /\ Did("set_rand_fail", 0, MeshState)
    /\ UNCHANGED <<links, topology, status, received, buffer, failed, dead_links, tick,
                   actions, hops, congestion, errors, unreached, round_trip, pc, cursor,
                   abort, next_id, genlog, recv_run, nruns>>

\* Mesh.rand_fail, the shell's [r]
RandFail(fail_type, fail_chance) ==
    /\ Ready
    /\ \E roll \in RollValues, rand_node \in Nodes :
         \E pick \in Picks(rand_node) :
            Becomes(rand_fail(MeshState, fail_type, fail_chance, <<>>, roll, rand_node, pick))
    /\ nfaults' = nfaults + 1
    /\ Did("rand_fail", 0, MeshState)
    /\ UNCHANGED <<links, topology, tick, fail_chances, congestion, pc, cursor, genlog, nruns>>

\* A faulty Mesh.run: the tick counter advances whether or not the event log
\* is empty.
MeshRun_ticking(never_fail) ==
    /\ Ready
    /\ tick' = tick + 1
    /\ congestion' = IF actions > 0 THEN Append(congestion, get_average_buffer(buffer))
                     ELSE congestion
    /\ \E r1 \in Rolls(fail_chances.node), n1 \in Draws(fail_chances.node),
          r2 \in Rolls(fail_chances.link), n2 \in Draws(fail_chances.link) :
         \E p2 \in (IF fail_chances.link > 0 THEN Picks(n2) ELSE {1}) :
            LET M0 == [MeshState EXCEPT !.actions = 0]
                M1 == IF fail_chances.node > 0
                      THEN rand_fail(M0, "node", fail_chances.node, never_fail, r1, n1, 1)
                      ELSE M0
                M2 == IF fail_chances.link > 0
                      THEN rand_fail(M1, "link", fail_chances.link, never_fail, r2, n2, p2)
                      ELSE M1
            IN  Becomes(M2)
    /\ pc' = "run"
    /\ cursor' = NodeOrder[1]
    /\ nruns' = nruns + 1
    /\ Did("Mesh.run", 0, MeshState)
    /\ UNCHANGED <<links, topology, fail_chances, genlog, nfaults>>

\* Mesh.run up to its loop over the nodes: the tick, the congestion sample,
\* the event log and the failure rolls; count is the number of Mesh.run calls
\* the history keeps after this one
MeshRunAt(never_fail, count) ==
    /\ Ready
    /\ tick' = IF actions > 0 THEN tick + 1 ELSE tick
    /\ congestion' = IF actions > 0 THEN Append(congestion, get_average_buffer(buffer))
                     ELSE congestion
    /\ \E r1 \in Rolls(fail_chances.node), n1 \in Draws(fail_chances.node),
          r2 \in Rolls(fail_chances.link), n2 \in Draws(fail_chances.link) :
         \E p2 \in (IF fail_chances.link > 0 THEN Picks(n2) ELSE {1}) :
            LET M0 == [MeshState EXCEPT !.actions = 0]
                M1 == IF fail_chances.node > 0
                      THEN rand_fail(M0, "node", fail_chances.node, never_fail, r1, n1, 1)
                      ELSE M0
                M2 == IF fail_chances.link > 0
                      THEN rand_fail(M1, "link", fail_chances.link, never_fail, r2, n2, p2)
                      ELSE M1
            IN  Becomes(M2)
    /\ pc' = "run"
    /\ cursor' = NodeOrder[1]
    /\ nruns' = count
    /\ Did("Mesh.run", 0, MeshState)
    /\ UNCHANGED <<links, topology, fail_chances, genlog, nfaults>>

\* Mesh.run called by the shell or by simulate: every call is counted
MeshRun(never_fail) == MeshRunAt(never_fail, nruns + 1)

\* the next node after n in Mesh.mesh, or -1 after the last one
NextNode(n) ==
    LET i == IndexOf(n, NodeOrder)
    IN  IF i < Len(NodeOrder) THEN NodeOrder[i + 1] ELSE -1

\* Mesh.run's loop: self.mesh[node].run() for the node at the cursor
NodeRunTo(M) ==
    /\ Becomes(M)
    /\ Did("Node.run", cursor, M)
    /\ IF M.abort # "none" THEN UNCHANGED <<pc, cursor>>
       ELSE IF NextNode(cursor) = -1 THEN pc' = "idle" /\ cursor' = NodeOrder[1]
       ELSE pc' = pc /\ cursor' = NextNode(cursor)

NodeRun ==
    /\ pc = "run"
    /\ abort = "none"
    /\ \E M \in {run(MeshState, cursor)} : NodeRunTo(M)
    /\ UNCHANGED <<links, topology, tick, fail_chances, congestion, genlog, nfaults, nruns>>

\* --------------------------------------------------- the specifications
ngen == Len(genlog)

\* Spec: packets, forced link and node failures, restore and ticks, on every
\* topology of Topologies
Init == links \in Topologies /\ InitMesh

Next ==
    \/ GenerateTopology
    \/ ngen < MaxPackets /\ \E n \in Nodes, d \in Nodes : <<n, d>> \in GenPairs /\ GeneratePacket(n, d)
    \/ nfaults < MaxFaults /\ \E a \in Nodes, b \in Nodes : <<a, b>> \in TogglePairs /\ ToggleLink(a, b)
    \/ nfaults < MaxFaults /\ \E n \in ToggleNodes : ToggleStatus(n)
    \/ nfaults < MaxFaults /\ Restore
    \/ nruns < MaxRuns /\ MeshRun(<<>>)
    \/ NodeRun

Spec == Init /\ [][Next]_vars

\* SpecNoFail: packets in a mesh where nothing ever fails
InitNoFail == links \in {Triangle, Line} /\ InitMesh

NextNoFail ==
    \/ GenerateTopology
    \/ ngen < NoFailPackets /\ \E n \in Nodes, d \in Nodes : <<n, d>> \in GenPairs /\ GeneratePacket(n, d)
    \/ nruns < NoFailRuns /\ MeshRun(<<>>)
    \/ NodeRun

SpecNoFail == InitNoFail /\ [][NextNoFail]_vars

\* SpecReroute: packets from 0 to 2 on the triangle while links go down and up
InitReroute == links = Triangle /\ InitMesh

NextReroute ==
    \/ GenerateTopology
    \/ ngen < ReroutePackets /\ GeneratePacket(0, 2)
    \/ nfaults < RerouteFaults /\ \E a \in Nodes, b \in Nodes : <<a, b>> \in TogglePairs /\ ToggleLink(a, b)
    \/ nruns < RerouteRuns /\ MeshRun(<<>>)
    \/ NodeRun

SpecReroute == InitReroute /\ [][NextReroute]_vars

\* SpecTopo: topology generation on every topology of at most MaxLinks links per node
InitTopo == links \in AllTopologies /\ InitMesh

NextTopo == GenerateTopology

SpecTopo == InitTopo /\ [][NextTopo]_vars

\* SpecRandom: the random failures of Mesh.rand_fail and Mesh.run
InitRandom == links \in {Triangle, Isolated} /\ InitMesh

NextRandom ==
    \/ GenerateTopology
    \/ ngen < RandomPackets /\ GeneratePacket(0, 2)
    \/ nfaults < RandomFaults /\ \E t \in {"node", "link"}, c \in ChanceValues : SetRandFail(t, c)
    \/ nfaults < RandomFaults /\ \E t \in {"node", "link"} : RandFail(t, 100)
    \/ nruns < RandomRuns /\ \E nf \in NeverFailSets : MeshRun(nf)
    \/ NodeRun

SpecRandom == InitRandom /\ [][NextRandom]_vars

\* SpecLinks: links of the triangle toggled in every orientation (pairs that
\* are no link and pairs of a node with itself included), and restore
InitLinks == links = Triangle /\ InitMesh

NextLinks ==
    \/ GenerateTopology
    \/ nfaults < LinkFaults /\ \E a \in Nodes, b \in Nodes : ToggleLink(a, b)
    \/ nfaults < LinkFaults /\ Restore

SpecLinks == InitLinks /\ [][NextLinks]_vars

\* SpecRestore: a packet from 0 to 2 on the triangle, links and nodes forced
\* down, and restore
InitRestore == links = Triangle /\ InitMesh

NextRestore ==
    \/ GenerateTopology
    \/ ngen < RestorePackets /\ GeneratePacket(0, 2)
    \/ nfaults < RestoreFaults /\ \E a \in Nodes, b \in Nodes : <<a, b>> \in TogglePairs /\ ToggleLink(a, b)
    \/ nfaults < RestoreFaults /\ \E n \in ToggleNodes : ToggleStatus(n)
    \/ nfaults < RestoreFaults /\ Restore
    \/ nruns < RestoreRuns /\ MeshRun(<<>>)
    \/ NodeRun

SpecRestore == InitRestore /\ [][NextRestore]_vars

\* SpecTick: Mesh.run on the triangle with one packet from 0 to 2, before and
\* after a failure chance is set
InitTick == links = Triangle /\ InitMesh

NextTick ==
    \/ GenerateTopology
    \/ ngen < TickPackets /\ GeneratePacket(0, 2)
    \/ nfaults < TickFaults /\ \E t \in {"node", "link"} : SetRandFail(t, 100)
    \/ nruns < TickRuns /\ MeshRun(<<>>)
    \/ NodeRun

SpecTick == InitTick /\ [][NextTick]_vars

\* SpecFail: the failure rolls of Mesh.run on the triangle and the line, with
\* every setting of the two chances and never-fail lists of 0, 1 and 2 nodes
InitFail == links \in {Triangle, Line} /\ InitMesh

NextFail ==
    \/ GenerateTopology
    \/ nfaults < FailFaults /\ \E t \in {"node", "link"}, c \in ChanceValues : SetRandFail(t, c)
    \/ nruns < FailRuns /\ \E nf \in FailSets : MeshRun(nf)
    \/ NodeRun

SpecFail == InitFail /\ [][NextFail]_vars

\* SpecConserve: packets on the line, between any of the pairs of GenPairs,
\* with a link or a node forced down
InitConserve == links = Line /\ InitMesh

NextConserve ==
    \/ GenerateTopology
    \/ ngen < ConservePackets /\ \E n \in Nodes, d \in Nodes : <<n, d>> \in GenPairs /\ GeneratePacket(n, d)
    \/ nfaults < ConserveFaults /\ \E a \in Nodes, b \in Nodes : <<a, b>> \in TogglePairs /\ ToggleLink(a, b)
    \/ nfaults < ConserveFaults /\ \E n \in ToggleNodes : ToggleStatus(n)
    \/ nruns < ConserveRuns /\ MeshRun(<<>>)
    \/ NodeRun

SpecConserve == InitConserve /\ [][NextConserve]_vars

\* SpecLive: Mesh.run called again and again on the triangle and the line
\* with no failure, as simulate's loop does, while the shell generates
\* LivePackets data packets at any moments.  The history stops counting the
\* calls at LiveRuns.  Mesh.run is called again whenever the program is
\* between operations, and a call in progress goes on to its next node: both
\* steps are weakly fair.
InitLive == links \in {Triangle, Line} /\ InitMesh

LiveRun == MeshRunAt(<<>>, IF nruns < LiveRuns THEN nruns + 1 ELSE nruns)

NextLive ==
    \/ GenerateTopology
    \/ ngen < LivePackets /\ \E n \in Nodes, d \in Nodes : <<n, d>> \in GenPairs /\ GeneratePacket(n, d)
    \/ LiveRun
    \/ NodeRun

SpecLive == InitLive /\ [][NextLive]_vars /\ WF_vars(LiveRun) /\ WF_vars(NodeRun)

\* SpecRoute: Node.__find_route on meshes of four nodes.  Init is a mesh after
\* Mesh(json_data) and generate_topology() (main.py, init_mesh) in which one
\* node has an avoidance list; FindRoute calls __find_route for a packet.
RouteNodes == {0, 1, 2, 3}

\* two routes of the same length from 0 to 3
Diamond == (0 :> <<1, 2>>) @@ (1 :> <<0, 3>>) @@ (2 :> <<0, 3>>) @@ (3 :> <<1, 2>>)
\* every node linked to every other node
Full == (0 :> <<1, 2, 3>>) @@ (1 :> <<0, 2, 3>>) @@ (2 :> <<0, 1, 3>>) @@ (3 :> <<0, 1, 2>>)
\* a line: 0 - 1 - 2 - 3
Path4 == (0 :> <<1>>) @@ (1 :> <<0, 2>>) @@ (2 :> <<1, 3>>) @@ (3 :> <<2>>)
\* two pairs without a link between them
Split == (0 :> <<1>>) @@ (1 :> <<0>>) @@ (2 :> <<3>>) @@ (3 :> <<2>>)

RouteTopologies == {Diamond, Full, Path4, Split}

\* the elements of s at the indexes of I, from index i on
RECURSIVE Pick(_, _, _)
Pick(s, I, i) ==
    IF i > Len(s) THEN <<>>
    ELSE (IF i \in I THEN <<s[i]>> ELSE <<>>) \o Pick(s, I, i + 1)

\* the avoidance lists of node n: __transmit_packet appends (n, target) for
\* targets of n's link list (their order does not matter to __in_path)
AvoidLists(lk, n) ==
    {Pick([i \in 1..Len(lk[n]) |-> <<n, lk[n][i]>>], I, 1) : I \in SUBSET (1..Len(lk[n]))}

\* the traveled paths a packet at node n can have: none yet (generate_packet
\* routes the packet before it is received), or a walk along links that ends
\* at n (__receive_packet appends the receiver)
Walks(lk, n) ==
    {<<>>} \cup
    {p \in UNION {[1..k -> RouteNodes] : k \in 1..MaxTravel} :
        /\ Last(p) = n
        /\ \A i \in 1..(Len(p) - 1) : InSeq(p[i + 1], lk[p[i]])}

InitRoute ==
    /\ links \in RouteTopologies
    /\ topology = [n \in RouteNodes |-> generate_topology(links, <<>>, n)]
    /\ status = [n \in RouteNodes |-> TRUE]
    /\ received = [n \in RouteNodes |-> FALSE]
    /\ buffer = [n \in RouteNodes |-> <<>>]
    /\ \E r \in RouteNodes : \E fl \in AvoidLists(links, r) :
          failed = [n \in RouteNodes |-> IF n = r THEN fl ELSE <<>>]
    /\ dead_links = <<>>
    /\ tick = 0
    /\ actions = 1
    /\ fail_chances = [node |-> 0, link |-> 0]
    /\ hops = <<>>
    /\ congestion = <<>>
    /\ errors = 0
    /\ unreached = 0
    /\ round_trip = 0
    /\ pc = "idle"
    /\ cursor = 0
    /\ abort = "none"
    /\ next_id = 0
    /\ genlog = <<>>
    /\ recv_run = [n \in RouteNodes |-> 0]
    /\ nfaults = 0
    /\ nruns = 0
    /\ last = [op |-> "generate_topology", node |-> 0, outcome |-> "none",
               attempts |-> <<>>, fatal |-> FALSE, packet |-> NoPacket]

\* the packet __find_route is called with
RoutePacket(n, packet_type, routing, path, destination) ==
    [id |-> next_id, packet_type |-> packet_type,
     source |-> IF path = <<>> THEN n ELSE path[1],
     destination |-> destination, routing |-> routing, path |-> path]

\* Node.__find_route(packet) at node n; last records the node, the packet
\* with the route that was returned, and whether the packet came with a route
FindRoute(n, packet_type, routing, path, destination) ==
    /\ Ready
    /\ last' = [op |-> "find_route", node |-> n,
                outcome |-> IF routing = <<>> THEN "unrouted" ELSE "routed",
                attempts |-> <<>>, fatal |-> FALSE,
                packet |-> [RoutePacket(n, packet_type, routing, path, destination)
                              EXCEPT !.routing = find_route(n, topology[n], failed[n],
                                  RoutePacket(n, packet_type, routing, path, destination))]]
    /\ UNCHANGED <<links, topology, status, received, buffer, failed, dead_links, tick,
                   actions, fail_chances, hops, congestion, errors, unreached,
                   round_trip, pc, cursor, abort, next_id, genlog, recv_run, nfaults, nruns>>

\* the routes a packet at node n can come with: none, or a path of n's topology
StoredRoutes(n) ==
    {<<>>} \cup {topology[n][i] : i \in {j \in 1..Len(topology[n]) : j <= 2}}

\* one call in a behaviour: a call changes nothing a later call reads
NextRoute ==
    /\ last.op # "find_route"
    /\ \E n \in RouteNodes, destination \in RouteNodes, packet_type \in {"data", "ACK"} :
          \E path \in Walks(links, n), routing \in StoredRoutes(n) :
              FindRoute(n, packet_type, routing, path, destination)

SpecRoute == InitRoute /\ [][NextRoute]_vars

\* ================================================================ claims
\* the packets held in the buffers
Buffered == UNION {Range(buffer[n]) : n \in Nodes}

\* k Mesh.run calls were made, and the last one has returned
RunsDone(k) == nruns = k /\ pc = "idle"

\* no failure is or was forced
NoFailure ==
    /\ nfaults = 0
    /\ dead_links = <<>>
    /\ \A n \in Nodes : status[n]
    /\ fail_chances = [node |-> 0, link |-> 0]

\* the data packet of the scenarios, as it is k hops after its generation
DataPacket(id, route, k) ==
    [id |-> id, packet_type |-> "data", source |-> 0, destination |-> 2,
     routing |-> route, path |-> SubSeq(route, 1, k + 1)]

\* ------------------------------------------------------------------- C1
\* the scenario of C1: the triangle, no failure, and one data packet
\* generated at node 0 for node 2 before the first Mesh.run call
C1_Scenario ==
    /\ links = Triangle
    /\ NoFailure
    /\ genlog = <<[source |-> 0, destination |-> 2, run |-> 0, faults |-> 0]>>

\* C1 as stated: in the scenario the first Mesh.run call delivers the packet
\* to node 2 over route [0,2], and after the second Mesh.run call the round
\* trip is complete: round-trip count 1 and hop list [1].
C1_RoundTripInSecondTick ==
    C1_Scenario =>
        /\ abort = "none"
        /\ RunsDone(1) => buffer = [n \in Nodes |->
                                      IF n = 2 THEN <<DataPacket(0, <<0, 2>>, 1)>> ELSE <<>>]
        /\ RunsDone(2) => round_trip = 1 /\ hops = <<1>>

\* C1 as amended: in the scenario the first Mesh.run call moves the packet
\* over route [0,2] into node 2's buffer; the second call records the
\* delivery (hop list [1]) and creates the ack, the round-trip count still
\* being 0; the round trip completes in the fifth call and not before, and
\* then the round-trip count is 1, the hop list [1] and every buffer empty.
C1_RoundTripInFifthTick ==
    C1_Scenario =>
        /\ abort = "none"
        /\ RunsDone(1) => buffer = [n \in Nodes |->
                                      IF n = 2 THEN <<DataPacket(0, <<0, 2>>, 1)>> ELSE <<>>]
        /\ RunsDone(2) =>
              /\ hops = <<1>>
              /\ round_trip = 0
              /\ buffer[2] = <<[id |-> 1, packet_type |-> "ACK", source |-> 2,
                                destination |-> 0, routing |-> <<2, 0>>, path |-> <<2>>]>>
        /\ nruns < 5 => round_trip = 0
        /\ RunsDone(5) =>
              /\ round_trip = 1
              /\ hops = <<1>>
              /\ \A n \in Nodes : buffer[n] = <<>>

\* C1, witness: the scenario after its fifth Mesh.run call, the round trip made
C1_Witness == C1_Scenario /\ RunsDone(5) /\ round_trip = 1

\* ------------------------------------------------------------------- C2
\* the scenario of C2: the triangle with link (0,2) forced down, nothing else
\* failing, and one data packet generated at node 0 for node 2 after that and
\* before the first Mesh.run call
C2_Scenario ==
    /\ links = Triangle
    /\ nfaults = 1
    /\ dead_links = <<<<0, 2>>>>
    /\ \A n \in Nodes : status[n]
    /\ genlog = <<[source |-> 0, destination |-> 2, run |-> 0, faults |-> 1]>>

\* C2: in the scenario node 0, in its turn of the first Mesh.run call, fails
\* on the direct link (the error counter grows), reroutes onto [0,1,2] and
\* hands the packet to node 1; the packet is delivered at node 2 in the third
\* call (hop count 2 recorded), and the unreachable counter stays 0.
C2_RerouteAndDeliver ==
    C2_Scenario =>
        /\ abort = "none"
        /\ unreached = 0
        /\ (nruns = 1 /\ pc = "run" /\ cursor = 1) =>
              /\ last.attempts = <<2, 1>>
              /\ errors = 1
              /\ buffer[0] = <<>>
              /\ buffer[1] = <<DataPacket(0, <<0, 1, 2>>, 1)>>
        /\ nruns >= 2 => errors >= 1
        /\ RunsDone(2) => buffer[2] = <<DataPacket(0, <<0, 1, 2>>, 2)>> /\ hops = <<>>
        /\ RunsDone(3) => hops = <<2>>

\* C2, witness: the scenario after the third Mesh.run call, the packet delivered
C2_Witness == C2_Scenario /\ RunsDone(3) /\ hops = <<2>> /\ errors >= 1

\* ------------------------------------------------------------------- C3
\* a data packet addressed to destination, as find_route sees it at node n
Probe(n, destination) ==
    [id |-> -1, packet_type |-> "data", source |-> n, destination |-> destination,
     routing |-> <<>>, path |-> <<n>>]

\* C3 as stated: a node with an empty link list finds the empty route for
\* every destination but itself, and when its turn comes with a packet for
\* such a destination at the head of its buffer, the packet is counted once
\* as unreachable and removed, and no other node's buffer or avoidance memory
\* changes.
C3_NoRouteCounted ==
    /\ [](pc # "new" =>
            \A n \in Nodes : links[n] = <<>> =>
                \A d \in Nodes \ {n} :
                    find_route(n, topology[n], failed[n], Probe(n, d)) = <<>>)
    /\ [][(/\ pc = "run"
           /\ links[cursor] = <<>>
           /\ status[cursor]
           /\ ~received[cursor]
           /\ buffer[cursor] # <<>>
           /\ Head(buffer[cursor]).destination # cursor)
          => /\ unreached' = unreached + 1
             /\ buffer'[cursor] = Tail(buffer[cursor])
             /\ \A m \in Nodes \ {cursor} :
                    buffer'[m] = buffer[m] /\ failed'[m] = failed[m]]_vars

\* ------------------------------------------------------------------- C4
\* a step from x to y over a link that is up, to a node that is up
LiveStep(x, y) == InSeq(y, links[x]) /\ status[y] /\ link_status(dead_links, x, y)

\* the nodes reached from the set S by at most k live steps
RECURSIVE LiveFrom(_, _)
LiveFrom(S, k) ==
    IF k = 0 THEN S
    ELSE LiveFrom(S \cup {y \in Nodes : \E x \in S : LiveStep(x, y)}, k - 1)

\* there is a path of up nodes and up links from a to b
LivePath(a, b) == status[a] /\ b \in LiveFrom({a}, Cardinality(Nodes))

\* C4 as stated: a node that gives up on a packet (counts it unreachable)
\* has no path of up nodes and up links to the packet's destination.
C4_FindsPathIfOneExists ==
    (last.op = "Node.run" /\ last.outcome = "giveup")
        => ~LivePath(last.node, last.packet.destination)

\* ------------------------------------------------------------------- C5
\* C5 as stated: at its turn in a Mesh.run call a node holds back (skips
\* processing) exactly when it received a packet from a peer earlier in that
\* same call; a packet received in one call is processed in the next,
\* wherever the receiver stands in the node order.
C5_OrderIndependent ==
    (last.op = "Node.run" /\ last.outcome \notin {"idle", "down"})
        => (last.outcome = "deferred" <=> recv_run[last.node] = nruns)

\* ------------------------------------------------------------------- C6
\* C6 as stated: no operation ends in an uncaught error.
C6_NoHardFailure == abort = "none"

\* ------------------------------------------------------------------- C7
\* C7: every buffered packet's traveled path starts with its source; over
\* any step a packet that stays in a buffer keeps its path, a packet that
\* moves to the buffer of another node has that node's id, and nothing
\* else, added to its path (the one successful transmission of the step, the
\* failed ones before it having changed nothing), and a new packet's path is
\* its source alone.
C7_PathOnlyGrows ==
    /\ [](\A p \in Buffered : p.path # <<>> /\ p.path[1] = p.source)
    /\ [][\A m \in Nodes : \A j \in 1..Len(buffer'[m]) :
            LET q == buffer'[m][j]
                old == {p \in Buffered : p.id = q.id}
            IN  /\ \A p \in old :
                    IF \E i \in 1..Len(buffer[m]) : buffer[m][i] = p
                    THEN q.path = p.path
                    ELSE /\ q.path = Append(p.path, m)
                         /\ last'.attempts # <<>>
                         /\ Last(last'.attempts) = m
                /\ old = {} => q.path = <<q.source>> /\ q.source = m]_vars

\* C7, witness: a packet that was transmitted twice, after a failed attempt
C7_Witness == \E p \in Buffered : Len(p.path) = 3 /\ errors >= 1

\* ------------------------------------------------------------------- C8
\* C8: the 'routing link does not exist' branch is never taken and Node.run
\* never fails to end; a send raises only when the route is empty; and every
\* buffered packet with a route that is not at its destination has its
\* holder in the route, not as the last element, followed by a node of the
\* holder's link list.
C8_NextHopIsLinked ==
    /\ ~last.fatal
    /\ abort # "hang"
    /\ (last.op = "Node.run" /\ abort # "none") => last.packet.routing = <<>>
    /\ \A n \in Nodes : \A i \in 1..Len(buffer[n]) :
          LET p == buffer[n][i]
          IN  (p.routing # <<>> /\ p.destination # n) =>
                 /\ InSeq(n, p.routing)
                 /\ IndexOf(n, p.routing) < Len(p.routing)
                 /\ InSeq(p.routing[IndexOf(n, p.routing) + 1], links[n])

\* C8, witness: a node has just sent a packet along a route that an earlier
\* node computed
C8_Witness ==
    /\ last.op = "Node.run"
    /\ last.outcome = "sent"
    /\ last.packet.routing # <<>>
    /\ last.packet.routing[1] # last.node

\* ------------------------------------------------------------------- C9
\* C9 as stated: a turn of a node that is up, has a non-empty buffer and a
\* clear received flag removes the head packet and nothing else: the buffer
\* afterwards is the rest of the old buffer, in order, followed by what was
\* newly added.
C9_OnePacketPerTurn ==
    [][(pc = "run" /\ status[cursor] /\ ~received[cursor] /\ buffer[cursor] # <<>>)
        => /\ Len(buffer'[cursor]) >= Len(buffer[cursor]) - 1
           /\ SubSeq(buffer'[cursor], 1, Len(buffer[cursor]) - 1) = Tail(buffer[cursor])
           /\ \A j \in 1..Len(buffer'[cursor]) :
                 buffer'[cursor][j].id # Head(buffer[cursor]).id]_vars

\* ------------------------------------------------------------------ C10
\* C10: after generate_topology every path of every node's topology starts
\* with the node, holds no id twice and steps along link-list entries, and
\* no path is in a topology twice.
C10_SimplePaths ==
    pc # "new" =>
        \A n \in Nodes : \A i \in 1..Len(topology[n]) :
            LET path == topology[n][i]
            IN  /\ path[1] = n
                /\ \A a \in 1..Len(path), b \in 1..Len(path) : a # b => path[a] # path[b]
                /\ \A k \in 2..Len(path) : InSeq(path[k], links[path[k - 1]])
                /\ \A j \in 1..Len(topology[n]) : j # i => topology[n][j] # path

\* C10, witness: a generated topology with paths of three nodes, from link
\* lists that hold a self link and a repeated entry
C10_Witness ==
    /\ pc = "idle"
    /\ links[0] = <<0, 1>>
    /\ links[1] = <<2, 2>>
    /\ InSeq(<<0, 1, 2>>, topology[0])


\* ------------------------------------------------------------------ C11
\* a step from x to y along x's link list, whatever is up or down
StaticStep(x, y) == InSeq(y, links[x])

\* the nodes reached from the set S by at most k steps along link lists
RECURSIVE StaticFrom(_, _)
StaticFrom(S, k) ==
    IF k = 0 THEN S
    ELSE StaticFrom(S \cup {y \in Nodes : \E x \in S : StaticStep(x, y)}, k - 1)

\* C11: after generate_topology the topology of every node n holds a path
\* that ends at m for every other node m that can be reached from n along
\* link lists, and with a path it holds every prefix of two nodes or more of
\* that path.
C11_ReachableAndPrefixes ==
    pc # "new" =>
        \A n \in Nodes :
            /\ \A m \in StaticFrom({n}, Cardinality(Nodes)) \ {n} :
                  \E i \in 1..Len(topology[n]) : Last(topology[n][i]) = m
            /\ \A i \in 1..Len(topology[n]) : \A k \in 2..Len(topology[n][i]) :
                  InSeq(SubSeq(topology[n][i], 1, k), topology[n])

\* C11, witness: node 2 is reached from node 0 only through node 1, and the
\* topology of node 0 holds the path and its prefix
C11_Witness ==
    /\ pc = "idle"
    /\ links[0] = <<1>>
    /\ links[1] = <<2, 0>>
    /\ links[2] = <<>>
    /\ topology[0] = <<<<0, 1>>, <<0, 1, 2>>>>


\* ------------------------------------------------------------------ C12
\* the dead-link list after toggle_link(a, b) and then toggle_link(c, d)
ToggledTwice(a, b, c, d) ==
    toggle_link(toggle_link(MeshState, a, b), c, d).dead_links

\* C12: in every reachable state, toggle_link called on a pair and then
\* again on the same pair, in the same or in the reversed orientation, leaves
\* link_status of every pair, in both orientations, as it is.
C12_ToggleTwice ==
    \A a \in Nodes, b \in Nodes :
        \A second \in {<<a, b>>, <<b, a>>} :
            \A x \in Nodes, y \in Nodes :
                link_status(ToggledTwice(a, b, second[1], second[2]), x, y)
                    = link_status(dead_links, x, y)

\* C12, witness: two toggle_link calls were made and no link is down: the
\* second call toggled the pair of the first
C12_Witness ==
    /\ last.op = "toggle_link"
    /\ nfaults = 2
    /\ dead_links = <<>>

\* ------------------------------------------------------------------ C13
\* C13: link_status gives the same answer in both orientations, a link is
\* reported down exactly when the pair is in the dead-link list in one of
\* its orientations, and the list holds no unordered pair twice.
C13_LinkStatusSymmetric ==
    /\ \A a \in Nodes, b \in Nodes :
          /\ link_status(dead_links, a, b) = link_status(dead_links, b, a)
          /\ ~link_status(dead_links, a, b)
                <=> \E i \in 1..Len(dead_links) : dead_links[i] \in {<<a, b>>, <<b, a>>}
    /\ \A i \in 1..Len(dead_links), j \in 1..Len(dead_links) :
          i # j => /\ dead_links[i] # dead_links[j]
                   /\ dead_links[i] # <<dead_links[j][2], dead_links[j][1]>>

\* C13, witness: a link is down that was toggled as (2,0), and link_status
\* says so when asked for (0,2)
C13_Witness ==
    /\ InSeq(<<2, 0>>, dead_links)
    /\ ~link_status(dead_links, 0, 2)
    /\ Len(dead_links) = 2


\* ------------------------------------------------------------------ C14
\* C14: a restore call leaves no link dead and every node up, and changes
\* neither the tick counter nor any buffer nor any avoidance list.
C14_RestoreFrame ==
    [][last'.op = "restore" =>
          /\ dead_links' = <<>>
          /\ \A n \in Nodes : status'[n]
          /\ tick' = tick
          /\ buffer' = buffer
          /\ failed' = failed]_vars

\* C14, witness: restore was called after a failed transmission, with a
\* packet in a buffer, an avoidance list that is not empty and the tick
\* counter above 0
C14_Witness ==
    /\ last.op = "restore"
    /\ errors >= 1
    /\ tick >= 1
    /\ \E n \in Nodes : buffer[n] # <<>>
    /\ \E n \in Nodes : failed[n] # <<>>

\* ------------------------------------------------------------------ C15
\* C15 as stated: after a restore call the hop list and the congestion
\* samples are empty and the error, unreachable and round-trip counters
\* are 0.
C15_RestoreClearsMetrics ==
    last.op = "restore" =>
        /\ hops = <<>>
        /\ congestion = <<>>
        /\ errors = 0
        /\ unreached = 0
        /\ round_trip = 0


\* ------------------------------------------------------------------ C16
\* C16: a Mesh.run call made with messages in the event log adds 1 to the
\* tick counter and one sample (the average buffer size at entry) to the
\* congestion list, a call made with an empty log changes neither; when the
\* node loop starts the log holds at most the messages of the two failure
\* rolls; no other step changes the tick counter or the congestion list; and
\* the congestion list has as many samples as the tick counter says.
C16_TickAndCongestion ==
    /\ [](Len(congestion) = tick)
    /\ [][IF nruns' = nruns + 1
          THEN /\ actions > 0 =>
                    /\ tick' = tick + 1
                    /\ congestion' = Append(congestion, get_average_buffer(buffer))
               /\ actions = 0 => tick' = tick /\ congestion' = congestion
               /\ actions' <= 2
               /\ (fail_chances.node = 0 /\ fail_chances.link = 0) => actions' = 0
          ELSE tick' = tick /\ congestion' = congestion]_vars

\* C16, witness: the second Mesh.run call was made with an empty event log
\* and left the tick counter at 1, and a failure roll has logged a message
C16_Witness ==
    /\ last.op = "Mesh.run"
    /\ nruns = 2
    /\ tick = 1
    /\ actions = 1


\* ------------------------------------------------------------------ C17
\* the __find_route call that last records: the node, its topology and
\* avoidance list, the packet's traveled path and destination, and the route
\* that was returned
Routed == last.op = "find_route"
RNode == last.node
RTopo == topology[last.node]
RAvoid == failed[last.node]
RPath == last.packet.path
RDest == last.packet.destination
RRoute == last.packet.routing

\* C17: the route __find_route returns is the one it returns for a packet
\* with the same traveled path and destination that has another type, no
\* stored route, another source and another identity, at the same node with
\* the same topology and avoidance list; and the call changes no topology, no
\* avoidance list, no buffer and no metric.
C17_RoutePure ==
    /\ [](Routed =>
            RRoute = find_route(RNode, RTopo, RAvoid,
                        [id |-> -1, packet_type |-> "none", source |-> -1,
                         destination |-> RDest, routing |-> <<>>, path |-> RPath]))
    /\ [][last'.op = "find_route" =>
            UNCHANGED <<topology, failed, buffer, hops, congestion, errors,
                        unreached, round_trip, dead_links, status>>]_vars

\* C17, witness: an ACK packet that came with a stored route and has
\* traveled was routed anew round a failed link
C17_Witness ==
    /\ Routed
    /\ last.outcome = "routed"
    /\ last.packet.packet_type = "ACK"
    /\ Len(RPath) >= 2
    /\ RAvoid # <<>>
    /\ Len(RRoute) >= 3

\* ------------------------------------------------------------------ C18
\* C18: a packet whose destination is the routing node gets the route that
\* holds that node alone.
C18_RouteToSelf == (Routed /\ RDest = RNode) => RRoute = <<RNode>>

\* C18, witness: a packet for the routing node itself, which has traveled
\* through it twice, was routed at a node with an avoidance list
C18_Witness ==
    /\ Routed
    /\ RDest = RNode
    /\ RAvoid # <<>>
    /\ Count(RNode, RPath) = 2

\* ------------------------------------------------------------------ C19
\* a path is excluded by an avoidance list: it holds a failed node, or it
\* steps over a failed link in one of the two directions
Excluded(fl, path) ==
    \/ \E e \in Range(fl) : Len(e) = 1 /\ e[1] \in Range(path)
    \/ \E i \in 1..(Len(path) - 1) :
          \/ <<path[i], path[i + 1]>> \in Range(fl)
          \/ <<path[i + 1], path[i]>> \in Range(fl)

\* the topology entries that end at the destination and are not excluded
Candidates == {i \in 1..Len(RTopo) : Last(RTopo[i]) = RDest /\ ~Excluded(RAvoid, RTopo[i])}

\* the candidates that share no node but the routing node with the traveled path
Accepted == {i \in Candidates : (Range(RTopo[i]) \ {RNode}) \cap Range(RPath) = {}}

\* C19: when the destination is another node and a candidate is accepted,
\* the route returned is an accepted candidate, no accepted candidate is
\* shorter, and no accepted candidate of the same length comes before it in
\* the topology.
C19_ShortestFirst ==
    (Routed /\ RDest # RNode /\ Accepted # {}) =>
        \E k \in Accepted :
            /\ RRoute = RTopo[k]
            /\ \A j \in Accepted :
                  \/ Len(RTopo[j]) > Len(RTopo[k])
                  \/ Len(RTopo[j]) = Len(RTopo[k]) /\ j >= k

\* C19, witness: two accepted candidates of the shortest length, and a
\* shorter candidate that is excluded
C19_Witness ==
    /\ Routed
    /\ RDest # RNode
    /\ \E j \in Accepted, k \in Accepted : j # k /\ Len(RTopo[j]) = Len(RRoute)
                                              /\ Len(RTopo[k]) = Len(RRoute)
    /\ \E i \in 1..Len(RTopo) : Last(RTopo[i]) = RDest /\ Len(RTopo[i]) < Len(RRoute)

\* ------------------------------------------------------------------ C20
\* the traveled path holds a node more than once
Repeated == \E i \in 1..Len(RPath), j \in 1..Len(RPath) : i # j /\ RPath[i] = RPath[j]

\* C20: when the destination is another node and no candidate is accepted,
\* the route returned is, if the traveled path holds no node twice and there
\* is a candidate, the candidate seen last in the scan (the last in the
\* topology of the longest ones), and the empty route otherwise; and a route
\* that is returned, accepted or not, is never excluded by the avoidance list.
C20_Fallback ==
    /\ (Routed /\ RDest # RNode /\ Accepted = {}) =>
          IF Candidates # {} /\ ~Repeated
          THEN \E k \in Candidates :
                  /\ RRoute = RTopo[k]
                  /\ \A j \in Candidates :
                        \/ Len(RTopo[j]) < Len(RTopo[k])
                        \/ Len(RTopo[j]) = Len(RTopo[k]) /\ j <= k
          ELSE RRoute = <<>>
    /\ Routed => ~Excluded(RAvoid, RRoute)

\* C20, witness: no candidate is accepted, the traveled path holds no node
\* twice, and the route is the last of two candidates
C20_Witness ==
    /\ Routed
    /\ RDest # RNode
    /\ Accepted = {}
    /\ Cardinality(Candidates) >= 2
    /\ ~Repeated
    /\ RRoute # <<>>


\* ------------------------------------------------------------------ C21
\* a step is a turn of the node at the cursor (Node.run)
Turn == pc = "run" /\ last'.op = "Node.run"

\* the peers a turn tried and failed to transmit to: all it tried but the
\* last one of a turn that ended with a transmission
FailedAttempts(att, outcome) ==
    IF outcome = "sent" THEN SubSeq(att, 1, Len(att) - 1) ELSE att

\* C21: in a turn of node n every failed attempt at a peer t was one over a
\* dead link or at a node that is down; the turn leaves in n's avoidance list
\* the entry (n, t) of every failed attempt, in order, and nothing else, and
\* the error counter grown by the number of failed attempts; the buffer and
\* the received flag of t are as before, and the packet's traveled path is as
\* before but for the receiver of the transmission that succeeded.
C21_FailedSend ==
    [][Turn =>
        LET n == cursor
            att == last'.attempts
            fa == FailedAttempts(att, last'.outcome)
        IN  /\ errors' = errors + Len(fa)
            /\ failed'[n] = [i \in 1..Len(fa) |-> <<n, fa[i]>>]
            /\ \A i \in 1..Len(fa) :
                  /\ InSeq(fa[i], links[n])
                  /\ ~link_status(dead_links, n, fa[i]) \/ ~status[fa[i]]
                  /\ buffer'[fa[i]] = buffer[fa[i]]
                  /\ received'[fa[i]] = received[fa[i]]
            /\ att # <<>> =>
                  last'.packet.path =
                      IF last'.outcome = "sent"
                      THEN Append(Head(buffer[n]).path, Last(att))
                      ELSE Head(buffer[n]).path]_vars

\* C21, witness: a turn failed at a peer that is down, over a link that is
\* up, and then transmitted to another peer
C21_Witness ==
    /\ last.op = "Node.run"
    /\ last.outcome = "sent"
    /\ Len(last.attempts) = 2
    /\ ~status[last.attempts[1]]
    /\ link_status(dead_links, last.node, last.attempts[1])
    /\ errors = 1


\* ------------------------------------------------------------------ C22
\* the node at the cursor is about to process the packet at the head of its
\* buffer, which is of the given type and has reached its destination
Arrived(packet_type) ==
    /\ pc = "run"
    /\ status[cursor]
    /\ ~received[cursor]
    /\ buffer[cursor] # <<>>
    /\ Head(buffer[cursor]).packet_type = packet_type
    /\ Head(buffer[cursor]).destination = cursor

\* C22: the turn of an up node d with a data packet for d at the head of its
\* buffer takes that packet out and appends one new ACK packet from d to the
\* data packet's source, with traveled path [d], to d's buffer, leaves d's
\* received flag clear, appends the length of the data packet's traveled
\* path minus 1 to the hop list and attempts no transmission; the turn of a
\* node with an ACK packet for it at the head adds 1 to the round-trip
\* counter, creates no packet and takes the ACK out; no other buffer changes.
C22_DeliveryAndAck ==
    [][(Turn /\ (Arrived("data") \/ Arrived("ACK"))) =>
        LET d == cursor
            packet == Head(buffer[d])
        IN  /\ last'.attempts = <<>>
            /\ \A m \in Nodes \ {d} : buffer'[m] = buffer[m]
            /\ ~received'[d]
            /\ IF packet.packet_type = "data"
               THEN /\ Len(buffer'[d]) = Len(buffer[d])
                    /\ SubSeq(buffer'[d], 1, Len(buffer[d]) - 1) = Tail(buffer[d])
                    /\ LET ack == Last(buffer'[d])
                       IN  /\ ack.packet_type = "ACK"
                           /\ ack.source = d
                           /\ ack.destination = packet.source
                           /\ ack.path = <<d>>
                           /\ ack.id = next_id
                    /\ next_id' = next_id + 1
                    /\ hops' = Append(hops, Len(packet.path) - 1)
                    /\ round_trip' = round_trip
               ELSE /\ buffer'[d] = Tail(buffer[d])
                    /\ next_id' = next_id
                    /\ hops' = hops
                    /\ round_trip' = round_trip + 1]_vars

\* C22, witness: a data packet was delivered after two hops and its ACK is
\* in the buffer of the destination
C22_Witness ==
    /\ last.op = "Node.run"
    /\ last.outcome = "delivered"
    /\ hops = <<2>>
    /\ Last(buffer[last.node]).packet_type = "ACK"


\* ------------------------------------------------------------------ C23
\* C23: no step changes the buffer of a node that is down: not its own turn,
\* not a transmission to it, not a generate_packet call on it, and not the
\* step that brings it up again.
C23_DownNodeKeepsBuffer ==
    [][\A n \in Nodes : ~status[n] => buffer'[n] = buffer[n]]_vars

\* C23, witness: a node that is down and holds a packet has had its turn
C23_Witness ==
    /\ last.op = "Node.run"
    /\ last.outcome = "down"
    /\ ~status[last.node]
    /\ buffer[last.node] # <<>>


\* ------------------------------------------------------------------ C24
\* C24 as stated: when generate_packet computes the first route of a new
\* packet, the avoidance list of the node holds no failure of an earlier
\* Mesh.run call, and the route is the one found with no failure recorded.
C24_FreshAvoidance ==
    (last.op = "generate_packet" /\ status[last.node]) =>
        LET n == last.node
            new_packet == Last(buffer[n])
        IN  /\ failed[n] = <<>>
            /\ new_packet.routing =
                  find_route(n, topology[n], <<>>, [new_packet EXCEPT !.path = <<>>])


\* ------------------------------------------------------------------ C25
\* the nodes whose status, and the links (as unordered pairs) whose state,
\* differ between the two states of a step
StatusToggled == {n \in Nodes : status'[n] # status[n]}
LinksToggled ==
    {pr \in Nodes \X Nodes :
        /\ pr[1] < pr[2]
        /\ link_status(dead_links', pr[1], pr[2]) # link_status(dead_links, pr[1], pr[2])}

\* C25: the failure rolls of one Mesh.run call toggle at most one node and at
\* most one link, nothing in a category whose chance is 0, no node of the
\* never-fail list, and only a link that is in the link list of a node outside
\* the never-fail list.
C25_RandomStep ==
    [][\A nf \in FailSets : MeshRun(nf) =>
          /\ Cardinality(StatusToggled) <= 1
          /\ Cardinality(LinksToggled) <= 1
          /\ Len(dead_links') \in {Len(dead_links) - 1, Len(dead_links), Len(dead_links) + 1}
          /\ fail_chances.node = 0 => status' = status
          /\ fail_chances.link = 0 => dead_links' = dead_links
          /\ \A n \in Range(nf) : n \notin StatusToggled
          /\ \A pr \in LinksToggled :
                \/ ~InSeq(pr[1], nf) /\ InSeq(pr[2], links[pr[1]])
                \/ ~InSeq(pr[2], nf) /\ InSeq(pr[1], links[pr[2]])]_vars

\* reached: a Mesh.run call whose rolls took one node down and one link down
C25_Witness ==
    /\ last.op = "Mesh.run"
    /\ nruns = 1
    /\ fail_chances = [node |-> 100, link |-> 100]
    /\ Cardinality({n \in Nodes : ~status[n]}) = 1
    /\ Len(dead_links) = 1


\* ------------------------------------------------------------------ C26
\* a turn of Node.run that entered the retry loop with a packet to forward
Forwarding ==
    /\ last.op = "Node.run"
    /\ last.outcome \notin {"idle", "down", "deferred", "delivered", "round_trip"}

\* C26 as stated: a turn that forwards its head packet makes at most as many
\* attempts as the node has links, no two at the same neighbour, and ends
\* with one successful transmission or with the packet given up on an empty
\* route.
C26_RetryEnds ==
    Forwarding =>
        LET att == last.attempts
        IN  /\ Len(att) <= Len(links[last.node])
            /\ \A i \in 1..Len(att), j \in 1..Len(att) : att[i] = att[j] => i = j
            /\ \/ last.outcome = "sent"
               \/ last.outcome = "giveup" /\ last.packet.routing = <<>>


\* ------------------------------------------------------------------ C27
\* the packets in all buffers, counted with their positions
Slots == {<<n, i>> \in Nodes \X (1..(ConservePackets + 1)) : i <= Len(buffer[n])}
InBuffers == Cardinality(Slots)
Accounted == InBuffers + round_trip + unreached
NoDuplicate ==
    /\ \A n \in Nodes : Len(buffer[n]) <= ConservePackets + 1
    /\ \A s \in Slots, t \in Slots :
          buffer[s[1]][s[2]].id = buffer[t[1]][t[2]].id => s = t

\* C27: as long as nothing aborts, every step keeps each packet in one place
\* of one buffer, keeps round_trip within the length of the hop list, and
\* leaves the sum of buffered packets, round_trip and unreached as it was,
\* but for a generate_packet call of the shell at a node that is up, which
\* adds one.
C27_Conservation ==
    [][abort' = "none" =>
          /\ NoDuplicate'
          /\ round_trip' <= Len(hops')
          /\ Accounted' = Accounted +
                (IF genlog' # genlog /\ status[last'.node] THEN 1 ELSE 0)]_vars

\* reached: two data packets were accepted; one made its round trip and the
\* other one was given up
C27_Witness ==
    /\ abort = "none"
    /\ pc = "idle"
    /\ ngen = 2
    /\ round_trip = 1
    /\ unreached = 1
    /\ InBuffers = 0


\* ------------------------------------------------------------------ C28
\* C28: between the operations of the shell, the traveled path of every packet
\* in a buffer ends with the node that holds it, and each node of the path is
\* in the link list of the node before it.
C28_PathFollowsLinks ==
    pc = "idle" =>
        \A n \in Nodes : \A k \in 1..Len(buffer[n]) :
            LET path == buffer[n][k].path
            IN  /\ path # <<>>
                /\ Last(path) = n
                /\ \A i \in 1..(Len(path) - 1) : InSeq(path[i + 1], links[path[i]])

\* reached: a packet that has traveled two links waits in a buffer
C28_Witness ==
    /\ pc = "idle"
    /\ \E n \in Nodes : \E k \in 1..Len(buffer[n]) :
          /\ Len(buffer[n][k].path) = 3
          /\ buffer[n][k].path[1] # n


\* ------------------------------------------------------------------ C29
\* every buffer is empty and every generated data packet made its round trip
Drained ==
    /\ \A n \in Nodes : buffer[n] = <<>>
    /\ round_trip = ngen
    /\ errors = 0
    /\ unreached = 0

\* C29: with no failure, finitely many data packets and Mesh.run called
\* again and again, from some moment on every buffer is empty, round_trip is
\* the number of data packets generated, and errors and unreached are 0.
C29_EventuallyDrained == <>[]Drained

\* reached: LivePackets packets were generated and the mesh has drained
C29_Witness ==
    /\ Drained
    /\ pc = "idle"
    /\ ngen = LivePackets
    /\ Len(hops) = LivePackets


\* ------------------------------------------------------------------ C30
\* the number of links of a shortest path from a to b along link lists, or
\* -1 when b cannot be reached from a
Distance(a, b) ==
    IF b \notin StaticFrom({a}, Cardinality(Nodes)) THEN -1
    ELSE CHOOSE k \in 0..Cardinality(Nodes) :
            /\ b \in StaticFrom({a}, k)
            /\ \A j \in 0..(k - 1) : b \notin StaticFrom({a}, j)

\* C30: with no failure, the value a delivery appends to the hop list is the
\* number of links of a shortest path from the packet's source to its
\* destination, and every value of the list is that number for one of the
\* generated packets.
C30_HopsAreShortest ==
    /\ (last.op = "Node.run" /\ last.outcome = "delivered") =>
          /\ hops # <<>>
          /\ Last(hops) = Distance(last.packet.source, last.packet.destination)
    /\ \A i \in 1..Len(hops) : \E g \in 1..Len(genlog) :
          hops[i] = Distance(genlog[g].source, genlog[g].destination)

\* reached: on the triangle a packet from 0 is delivered at 2 over the direct
\* link, though the path over node 1 exists as well
C30_Witness ==
    /\ links = Triangle
    /\ last.op = "Node.run"
    /\ last.outcome = "delivered"
    /\ last.packet.source = 0
    /\ last.packet.destination = 2
    /\ Last(hops) = 1

\* ------------------------------------------------------------------ C31
\* C31 as stated: every congestion sample is an average of non-empty buffer
\* sizes, a value of at least 1, and never the -1.0 that get_average_buffer
\* returns when all buffers are empty.
C31_RealSamples ==
    \A i \in 1..Len(congestion) :
        /\ congestion[i] # [num |-> -1, den |-> 1]
        /\ congestion[i].den >= 1
        /\ congestion[i].num >= congestion[i].den

====
